---------------------------- MODULE Spec2Model ----------------------------
(***************************************************************************)
(* A model of src/components/SpellChecker.js: the single-word spelling     *)
(* corrector getCorrection with its helpers levenshtein, repeatVariants    *)
(* and preserveCase, and the lazily loaded module-level word set.          *)
(*                                                                         *)
(* A JavaScript string is a sequence of one-character strings.  Indices    *)
(* in the operators below are the 0-based indices of the source; the       *)
(* helpers charAt, slice and sliceFrom translate them.  A JavaScript Set   *)
(* is a duplicate-free sequence in insertion order (SetAdd), which is the  *)
(* order Set.prototype.forEach and for..of visit it in.                    *)
(***************************************************************************)
EXTENDS Integers, Sequences, FiniteSets, TLC

VARIABLES
  rawWord,        \* the token handed to getCorrection
  hasWord,        \* the optional predicate: [given, accepts]
  fetchAvailable, \* typeof fetch === "function" in this environment
  wordsDataset,   \* __wordsDataset: [loaded, words]; loaded = FALSE is null
  nFetch,         \* background loads suspended at `await fetch(url)`
  nText,          \* background loads suspended at `await res.text()`
  unhandled,      \* a rejection of a background load reached the host
  result,         \* what the latest getCorrection call returned
  best,           \* the Hit that call chose (Null when it chose none)
  last,           \* the operation that produced this state
  levA, levB,     \* arguments of a levenshtein call
  levD,           \* its result
  rvWord,         \* argument of a repeatVariants call
  rvOut           \* its result (a Set, in insertion order)

corrVars == <<rawWord, hasWord, fetchAvailable, wordsDataset, nFetch, nText,
              unhandled, result, best, last>>
levVars  == <<levA, levB, levD>>
rvVars   == <<rvWord, rvOut>>
vars     == <<corrVars, levVars, rvVars>>

---------------------------------------------------------------------------
(* Bounds of the model.                                                    *)

MaxLen     == 3   \* longest token handed to getCorrection with a predicate
MaxDict    == 2   \* most words an injected predicate accepts
MaxLoadLen == 2   \* longest token handed to getCorrection without one
MaxPending == 2   \* most background loads in flight at once
MaxLevLen  == 3   \* longest argument of a checked levenshtein call
MaxRvLen   == 4   \* longest argument of a checked repeatVariants call

\* Characters tokens are built from: two lowercase letters, an upper-case
\* letter and a digit.
TokenChars == {"a", "b", "A", "1"}

\* Words an injected predicate may accept (any MaxDict of them).
Words == { <<>>, <<"a">>, <<"b">>, <<"a", "a">>, <<"a", "b">>, <<"a", "z">>,
           <<"a", "a", "b">> }

LevChars == {"a", "b"}
RvChars  == {"a", "b", "c"}

StringsOver(chars, n) == UNION { [1..k -> chars] : k \in 0..n }

---------------------------------------------------------------------------
(* JavaScript values and string primitives.                                *)

\* null and "not called yet": neither is a string of one-character strings.
Null     == <<"null">>
NoResult == <<"none">>

alphabet == << "a", "b", "c", "d", "e", "f", "g", "h", "i", "j", "k", "l", "m",
               "n", "o", "p", "q", "r", "s", "t", "u", "v", "w", "x", "y", "z" >>
capitals == << "A", "B", "C", "D", "E", "F", "G", "H", "I", "J", "K", "L", "M",
               "N", "O", "P", "Q", "R", "S", "T", "U", "V", "W", "X", "Y", "Z" >>

toLowerCaseCh(c) ==
  IF \E k \in DOMAIN capitals : capitals[k] = c
  THEN alphabet[CHOOSE k \in DOMAIN capitals : capitals[k] = c]
  ELSE c

toUpperCaseCh(c) ==
  IF \E k \in DOMAIN alphabet : alphabet[k] = c
  THEN capitals[CHOOSE k \in DOMAIN alphabet : alphabet[k] = c]
  ELSE c

\* A sequence given as a function on 1..n, as a sequence value.
Tuple(f) == f \o <<>>

toLowerCase(s) == Tuple([k \in 1..Len(s) |-> toLowerCaseCh(s[k])])
toUpperCase(s) == Tuple([k \in 1..Len(s) |-> toUpperCaseCh(s[k])])

\* s[i], s.slice(from, to), s.slice(from) for in-range 0-based arguments.
charAt(s, i)        == s[i + 1]
slice(s, from, to)  == SubSeq(s, from + 1, to)
sliceFrom(s, from)  == SubSeq(s, from + 1, Len(s))

\* !v for a string or null.
Falsy(v) == v = Null \/ v = <<>>

\* Set.prototype.add on an insertion-ordered Set.
SetAdd(set, v) ==
  IF \E k \in DOMAIN set : set[k] = v THEN set ELSE Append(set, v)

---------------------------------------------------------------------------
(* levenshtein(a, b): the dynamic-programming table, filled as the source  *)
(* fills it.                                                               *)

Min3(x, y, z) == IF x <= y THEN (IF x <= z THEN x ELSE z)
                           ELSE (IF y <= z THEN y ELSE z)

\* A cost that never sees a match.
cellCost_AlwaysOne(a, b, i, j) == 1

cellCost(a, b, i, j) == IF charAt(a, i - 1) = charAt(b, j - 1) THEN 0 ELSE 1

\* One cell: dp[i][j] = Math.min(dp[i-1][j] + 1, dp[i][j-1] + 1, dp[i-1][j-1] + cost)
levCell(dp, a, b, i, j) ==
  Min3(dp[i - 1][j] + 1, dp[i][j - 1] + 1, dp[i - 1][j - 1] + cellCost(a, b, i, j))

dpInit(a, b) ==
  LET zero == [i \in 0..Len(a) |-> [j \in 0..Len(b) |-> 0]]
      col0 == [i \in 0..Len(a) |-> [zero[i] EXCEPT ![0] = i]]
  IN  [col0 EXCEPT ![0] = [j \in 0..Len(b) |-> j]]

RECURSIVE dpFill(_, _, _, _, _)
dpFill(dp, a, b, i, j) ==
  IF i > Len(a) THEN dp
  ELSE IF j > Len(b) THEN dpFill(dp, a, b, i + 1, 1)
  ELSE dpFill([dp EXCEPT ![i][j] = levCell(dp, a, b, i, j)], a, b, i, j + 1)

levenshtein(a, b) == dpFill(dpInit(a, b), a, b, 1, 1)[Len(a)][Len(b)]

---------------------------------------------------------------------------
(* repeatVariants(word).                                                   *)

\* The inner while loop: the first j > i with word[j] # word[i].
RECURSIVE runEnd(_, _, _)
runEnd(word, i, j) ==
  IF j < Len(word) /\ charAt(word, j) = charAt(word, i)
  THEN runEnd(word, i, j + 1) ELSE j

\* The outer while loop: the maximal runs {ch, len}, left to right.
RECURSIVE runsFrom(_, _, _)
runsFrom(word, i, runs) ==
  IF i < Len(word)
  THEN LET j == runEnd(word, i, i + 1)
       IN  runsFrom(word, j, Append(runs, [ch |-> charAt(word, i), len |-> j - i]))
  ELSE runs

runsOf(word) == runsFrom(word, 0, <<>>)

\* A backtracking that never keeps a double.
RECURSIVE backtrack_SinglesOnly(_, _, _, _)
backtrack_SinglesOnly(runs, idx, acc, variants) ==
  IF idx = Len(runs) THEN SetAdd(variants, acc)
  ELSE backtrack_SinglesOnly(runs, idx + 1, acc \o <<runs[idx + 1].ch>>, variants)

RECURSIVE backtrack(_, _, _, _)
backtrack(runs, idx, acc, variants) ==
  IF idx = Len(runs) THEN SetAdd(variants, acc)
  ELSE LET ch == runs[idx + 1].ch
           len == runs[idx + 1].len
       IN IF len = 1
          THEN backtrack(runs, idx + 1, acc \o <<ch>>, variants)
          ELSE backtrack(runs, idx + 1, acc \o <<ch, ch>>,
                         backtrack(runs, idx + 1, acc \o <<ch>>, variants))

repeatVariants(word) == backtrack(runsOf(word), 0, <<>>, <<>>)

---------------------------------------------------------------------------
(* preserveCase(original, corrected).                                      *)

\* A Capitalized branch that forgets the rest of the word.
preserveCase_FirstOnly(original, corrected) ==
  IF Falsy(corrected) THEN original
  ELSE IF toUpperCase(original) = original THEN toUpperCase(corrected)
  ELSE IF Len(original) > 0 /\ toUpperCaseCh(charAt(original, 0)) = charAt(original, 0)
       THEN <<toUpperCaseCh(charAt(corrected, 0))>>
  ELSE corrected

preserveCase(original, corrected) ==
  IF Falsy(corrected) THEN original
  ELSE IF toUpperCase(original) = original THEN toUpperCase(corrected)
  ELSE IF Len(original) > 0 /\ toUpperCaseCh(charAt(original, 0)) = charAt(original, 0)
       THEN <<toUpperCaseCh(charAt(corrected, 0))>> \o sliceFrom(corrected, 1)
  ELSE corrected

---------------------------------------------------------------------------
(* getCorrection(rawWord, hasWord).                                        *)

\* A membership test that answers for prefixes of words (a trie's
\* startsWith where contains was meant).
isWord_Prefix(w, hw, ds) ==
  LET words == IF hw.given THEN hw.accepts ELSE IF ds.loaded THEN ds.words ELSE {}
  IN  \E x \in words : Len(w) <= Len(x) /\ SubSeq(x, 1, Len(w)) = w

\* The closure isWord, over the predicate and the word set as they are
\* during the call.
isWord(w, hw, ds) ==
  IF hw.given THEN w \in hw.accepts
  ELSE IF ds.loaded THEN w \in ds.words
  ELSE FALSE

\* The strings the four passes hand to candidates.add, in program order.

\* 1) for (const v of repeatVariants(lower)): the variants in their Set's order.
repeatAdds(lower) == repeatVariants(lower)

\* A deletion pass that drops two characters: slice(i + 2).
deletionAdds_TwoChars(lower) ==
  [n \in 1..Len(lower) |->
     LET i == n - 1 IN slice(lower, 0, i) \o sliceFrom(lower, i + 2)]

\* 2) single deletion, i = 0 .. length-1.
deletionAdds(lower) ==
  [n \in 1..Len(lower) |->
     LET i == n - 1 IN slice(lower, 0, i) \o sliceFrom(lower, i + 1)]

\* An insertion pass that stops at i < length: nothing is appended.
insertionAdds_NoAppend(lower) ==
  [n \in 1..(Len(lower) * Len(alphabet)) |->
     LET i == (n - 1) \div Len(alphabet)
         ch == alphabet[((n - 1) % Len(alphabet)) + 1]
     IN  slice(lower, 0, i) \o <<ch>> \o sliceFrom(lower, i)]

\* 3) single insertion, i = 0 .. length (outer loop), ch = a .. z (inner loop).
insertionAdds(lower) ==
  [n \in 1..((Len(lower) + 1) * Len(alphabet)) |->
     LET i == (n - 1) \div Len(alphabet)
         ch == alphabet[((n - 1) % Len(alphabet)) + 1]
     IN  slice(lower, 0, i) \o <<ch>> \o sliceFrom(lower, i)]

\* 4) single substitution, i = 0 .. length-1 (outer), ch = a .. z (inner),
\*    skipping ch === lower[i].
substitutionAdds(lower) ==
  LET steps == [n \in 1..(Len(lower) * Len(alphabet)) |->
                  [i |-> (n - 1) \div Len(alphabet),
                   ch |-> alphabet[((n - 1) % Len(alphabet)) + 1]]]
      taken == SelectSeq(steps, LAMBDA st : st.ch # charAt(lower, st.i))
  IN  [n \in 1..Len(taken) |->
         slice(lower, 0, taken[n].i) \o <<taken[n].ch>> \o sliceFrom(lower, taken[n].i + 1)]

\* A Set after the adds of `adds`, in order: each value stays where it was
\* first added.
setOfAdds(adds) ==
  LET numbered == [n \in 1..Len(adds) |-> [n |-> n, v |-> adds[n]]]
      firsts == SelectSeq(numbered,
                          LAMBDA e : \A m \in 1..(e.n - 1) : adds[m] # e.v)
  IN  Tuple([n \in 1..Len(firsts) |-> firsts[n].v])

candidatesOf(lower) ==
  setOfAdds(repeatAdds(lower) \o deletionAdds(lower)
            \o insertionAdds(lower) \o substitutionAdds(lower))

\* candidates.forEach: skip the empty string, keep what isWord accepts.
hitsOf(candidates, hw, ds) ==
  SelectSeq(candidates, LAMBDA c : ~Falsy(c) /\ isWord(c, hw, ds))

\* let bestScore = Infinity
Infinity == 1000000

\* No early exit.
alreadyKnown_Never(lower, hw, ds) == FALSE

\* Line 35: the early exit.
alreadyKnown(lower, hw, ds) == isWord(lower, hw, ds)

\* A selection loop with score <= bestScore: the last minimum wins.
RECURSIVE pickBest_LastMinimum(_, _, _, _)
pickBest_LastMinimum(hits, lower, k, st) ==
  IF k > Len(hits) THEN st
  ELSE LET h == hits[k]
           score == levenshtein(lower, h)
       IN pickBest_LastMinimum(hits, lower, k + 1,
                               IF score <= st.bestScore
                               THEN [best |-> h, bestScore |-> score]
                               ELSE st)

\* The selection loop; st = [best, bestScore].
RECURSIVE pickBest(_, _, _, _)
pickBest(hits, lower, k, st) ==
  IF k > Len(hits) THEN st
  ELSE LET h == hits[k]
           score == levenshtein(lower, h)
       IN pickBest(hits, lower, k + 1,
                   IF score < st.bestScore
                   THEN [best |-> h, bestScore |-> score]
                   ELSE st)

\* The whole function: what it returns and the Hit it chose.
correction(raw, hw, ds) ==
  IF Falsy(raw) THEN [ret |-> raw, best |-> Null]
  ELSE LET lower == toLowerCase(raw)
       IN IF alreadyKnown(lower, hw, ds) THEN [ret |-> raw, best |-> Null]
          ELSE LET hits == hitsOf(candidatesOf(lower), hw, ds)
               IN IF Len(hits) > 0
                  THEN LET b == pickBest(hits, lower, 1,
                                         [best |-> Null, bestScore |-> Infinity]).best
                       IN  [ret |-> preserveCase(raw, b), best |-> b]
                  ELSE [ret |-> raw, best |-> Null]

getCorrection(raw, hw, ds) == correction(raw, hw, ds).ret

---------------------------------------------------------------------------
(* loadWordsDataset: what it makes of the fetched text.                    *)

whitespace == {" ", "\t", "\r", "\n"}

RECURSIVE trimStart(_)
trimStart(s) == IF Len(s) > 0 /\ s[1] \in whitespace THEN trimStart(Tail(s)) ELSE s

RECURSIVE trimEnd(_)
trimEnd(s) ==
  IF Len(s) > 0 /\ s[Len(s)] \in whitespace THEN trimEnd(SubSeq(s, 1, Len(s) - 1)) ELSE s

trim(s) == trimEnd(trimStart(s))

\* text.split(/\r?\n/): a line ends at "\n", and at "\r\n" without the "\r".
RECURSIVE splitLines(_, _, _, _)
splitLines(text, k, cur, lines) ==
  IF k = Len(text) THEN Append(lines, cur)
  ELSE IF charAt(text, k) = "\n"
       THEN splitLines(text, k + 1, <<>>,
                       Append(lines,
                              IF Len(cur) > 0 /\ cur[Len(cur)] = "\r"
                              THEN SubSeq(cur, 1, Len(cur) - 1) ELSE cur))
  ELSE splitLines(text, k + 1, Append(cur, charAt(text, k)), lines)

\* new Set(text.split(..).map(w => w.trim().toLowerCase()).filter(Boolean));
\* only has() is ever asked of it, so its order is not kept.
parseWords(text) ==
  LET lines == splitLines(text, 0, <<>>, <<>>)
  IN  { toLowerCase(trim(lines[k])) : k \in DOMAIN lines } \ { <<>> }

\* Texts the server may answer /words.txt with.
Files == { <<"a", "\n", "a", "b", "\n">>,
           <<" ", "B", "\r", "\n", "\n", "A", "a", " ">>,
           <<>> }

---------------------------------------------------------------------------
(* The state machine.                                                      *)

NoPredicate == [given |-> FALSE, accepts |-> {}]
NullDataset == [loaded |-> FALSE, words |-> {}]

Tokens       == StringsOver(TokenChars, MaxLen)
Dictionaries == { d \in SUBSET Words : Cardinality(d) <= MaxDict }
Predicates   == { [given |-> TRUE, accepts |-> d] : d \in Dictionaries }

LevIdle  == levA = <<>> /\ levB = <<>> /\ levD = 0
RvIdle   == rvWord = <<>> /\ rvOut = <<NoResult>>
CorrIdle ==
  /\ rawWord = <<>>
  /\ hasWord = NoPredicate
  /\ fetchAvailable = FALSE
  /\ wordsDataset = NullDataset
  /\ nFetch = 0
  /\ nText = 0
  /\ unhandled = FALSE
  /\ result = NoResult
  /\ best = Null
  /\ last = "init"

Idle ==
  /\ wordsDataset = NullDataset
  /\ nFetch = 0
  /\ nText = 0
  /\ unhandled = FALSE
  /\ result = NoResult
  /\ best = Null
  /\ last = "init"
  /\ LevIdle
  /\ RvIdle

\* The module is loaded (line 5: the word set is null) and a caller holds a
\* token and a predicate.  With a predicate getCorrection neither reads nor
\* loads the word set (lines 27 and 32), so the loader stays idle.
Init ==
  /\ rawWord \in Tokens
  /\ hasWord \in Predicates
  /\ fetchAvailable = TRUE
  /\ Idle

\* The same, for a caller without a predicate, in an environment with or
\* without fetch.
InitLoad ==
  /\ rawWord \in StringsOver(TokenChars, MaxLoadLen)
  /\ hasWord = NoPredicate
  /\ fetchAvailable \in BOOLEAN
  /\ Idle

\* Line 27: does this call start a background load?
startsLoad(raw, hw, ds, fa) == ~Falsy(raw) /\ ~hw.given /\ ~ds.loaded /\ fa

\* getCorrection(rawWord, hasWord), start to return.  loadWordsDataset() runs
\* to its first await (line 9) inside the call; the rest of the load is the
\* four actions below.
GetCorrection ==
  /\ startsLoad(rawWord, hasWord, wordsDataset, fetchAvailable)
       => nFetch + nText < MaxPending
  /\ \E c \in {correction(rawWord, hasWord, wordsDataset)} :
        /\ result' = c.ret
        /\ best' = c.best
  /\ nFetch' = IF startsLoad(rawWord, hasWord, wordsDataset, fetchAvailable)
               THEN nFetch + 1 ELSE nFetch
  /\ last' = "getCorrection"
  /\ UNCHANGED <<rawWord, hasWord, fetchAvailable, wordsDataset, nText, unhandled>>
  /\ UNCHANGED <<levVars, rvVars>>

\* `await fetch(url)` resolves: the load goes on to `await res.text()`.
FetchResolve ==
  /\ nFetch > 0
  /\ nFetch' = nFetch - 1
  /\ nText' = nText + 1
  /\ last' = "fetchResolve"
  /\ UNCHANGED <<rawWord, hasWord, fetchAvailable, wordsDataset, unhandled, result, best>>
  /\ UNCHANGED <<levVars, rvVars>>

\* A failed load that leaves an empty word set behind.
afterReject_EmptySet(ds, un) ==
  [ds |-> [loaded |-> TRUE, words |-> {}], unhandled |-> un]

\* What a rejected background load does to the word set and the host:
\* line 11 is never reached, and .catch(() => {}) (line 29) takes the error.
afterReject(ds, un) == [ds |-> ds, unhandled |-> un]

\* `await fetch(url)` rejects.
FetchReject ==
  /\ nFetch > 0
  /\ nFetch' = nFetch - 1
  /\ wordsDataset' = afterReject(wordsDataset, unhandled).ds
  /\ unhandled' = afterReject(wordsDataset, unhandled).unhandled
  /\ last' = "fetchReject"
  /\ UNCHANGED <<rawWord, hasWord, fetchAvailable, nText, result, best>>
  /\ UNCHANGED <<levVars, rvVars>>

\* `await res.text()` resolves: lines 11-16 assign the word set.
TextResolve ==
  /\ nText > 0
  /\ \E text \in Files :
       wordsDataset' = [loaded |-> TRUE, words |-> parseWords(text)]
  /\ nText' = nText - 1
  /\ last' = "textResolve"
  /\ UNCHANGED <<rawWord, hasWord, fetchAvailable, nFetch, unhandled, result, best>>
  /\ UNCHANGED <<levVars, rvVars>>

\* `await res.text()` rejects.
TextReject ==
  /\ nText > 0
  /\ nText' = nText - 1
  /\ wordsDataset' = afterReject(wordsDataset, unhandled).ds
  /\ unhandled' = afterReject(wordsDataset, unhandled).unhandled
  /\ last' = "textReject"
  /\ UNCHANGED <<rawWord, hasWord, fetchAvailable, nFetch, result, best>>
  /\ UNCHANGED <<levVars, rvVars>>

\* With a predicate a call changes nothing a later call reads, so a second
\* call repeats the first: Spec follows each caller through one call.
Next == result = NoResult /\ GetCorrection

Spec == Init /\ [][Next]_vars

NextLoad ==
  \/ GetCorrection
  \/ FetchResolve
  \/ FetchReject
  \/ TextResolve
  \/ TextReject

SpecLoad == InitLoad /\ [][NextLoad]_vars

---------------------------------------------------------------------------
(* levenshtein and repeatVariants on their own.                            *)

InitLev ==
  /\ CorrIdle
  /\ RvIdle
  /\ levA \in StringsOver(LevChars, MaxLevLen)
  /\ levB \in StringsOver(LevChars, MaxLevLen)
  /\ levD = -1

Levenshtein ==
  /\ levD' = levenshtein(levA, levB)
  /\ UNCHANGED <<levA, levB, corrVars, rvVars>>

NextLev == Levenshtein

SpecLev == InitLev /\ [][NextLev]_vars

InitRepeat ==
  /\ CorrIdle
  /\ LevIdle
  /\ rvWord \in StringsOver(RvChars, MaxRvLen)
  /\ rvOut = <<NoResult>>

RepeatVariants ==
  /\ rvOut' = repeatVariants(rvWord)
  /\ UNCHANGED <<rvWord, corrVars, levVars>>

NextRepeat == RepeatVariants

SpecRepeat == InitRepeat /\ [][NextRepeat]_vars

---------------------------------------------------------------------------
(* Notions the properties are stated in, defined without the code's loops. *)

Range(seq) == { seq[k] : k \in DOMAIN seq }

Letters == Range(alphabet)

RemoveAt(s, i) == SubSeq(s, 1, i - 1) \o SubSeq(s, i + 1, Len(s))

\* t is s with one character removed.
IsDeletion(s, t) ==
  Len(t) + 1 = Len(s) /\ \E i \in 1..Len(s) : RemoveAt(s, i) = t

\* t is s with one character of `chars` inserted.
IsInsertion(s, t, chars) ==
  Len(t) = Len(s) + 1 /\ \E i \in 1..Len(t) : t[i] \in chars /\ RemoveAt(t, i) = s

\* t is s with one character replaced by a different one of `chars`.
IsSubstitution(s, t, chars) ==
  /\ Len(t) = Len(s)
  /\ \E i \in 1..Len(s) :
       /\ t[i] # s[i]
       /\ t[i] \in chars
       /\ \A j \in 1..Len(s) : j # i => t[j] = s[j]

\* t is one single-character edit away from s, the new character (if any)
\* taken from `chars`.
IsSingleEdit(s, t, chars) ==
  IsDeletion(s, t) \/ IsInsertion(s, t, chars) \/ IsSubstitution(s, t, chars)

\* Levenshtein distance exactly 1, whatever the characters.
AtDistanceOne(s, t) == IsSingleEdit(s, t, Range(s) \cup Range(t))

\* The maximal runs of s: where they start, how many there are, the k-th
\* one's start, character and length.
RunStarts(s) == { i \in 1..Len(s) : i = 1 \/ s[i] # s[i - 1] }
RunCount(s)  == Cardinality(RunStarts(s))
RunStart(s, k) ==
  CHOOSE i \in RunStarts(s) : Cardinality({ j \in RunStarts(s) : j <= i }) = k
RunChar(s, k) == s[RunStart(s, k)]
RunLength(s, k) ==
  (IF k = RunCount(s) THEN Len(s) + 1 ELSE RunStart(s, k + 1)) - RunStart(s, k)

\* t is w with every run of length > 1 cut to 1 or 2 characters and every
\* run of length 1 kept.
IsCollapse(w, t) ==
  /\ RunCount(t) = RunCount(w)
  /\ \A k \in 1..RunCount(w) :
       /\ RunChar(t, k) = RunChar(w, k)
       /\ IF RunLength(w, k) = 1 THEN RunLength(t, k) = 1
                                 ELSE RunLength(t, k) \in {1, 2}

\* c belongs to the candidate set generated from lower.
IsCandidate(lower, c) ==
  IsCollapse(lower, c) \/ IsSingleEdit(lower, c, Letters)

\* The Hits of the latest call: the non-empty candidates the predicate accepts.
HitSet == { c \in hasWord.accepts : c # <<>> /\ IsCandidate(toLowerCase(rawWord), c) }

Called == result # NoResult

---------------------------------------------------------------------------
(* The claims about getCorrection with a predicate, checked under Spec.    *)

\* C1: a non-empty token whose lowercase form the predicate accepts comes
\* back unchanged, and no Hit is chosen, whatever else the predicate accepts.
C1_KnownWordUnchanged ==
  (Called /\ rawWord # <<>> /\ toLowerCase(rawWord) \in hasWord.accepts)
    => (result = rawWord /\ best = Null)

\* A mixed-case known word, with another accepted word one edit away.
C1_Witness ==
  /\ Called
  /\ toLowerCase(rawWord) \in hasWord.accepts
  /\ toLowerCase(rawWord) # rawWord
  /\ toUpperCase(rawWord) # rawWord
  /\ \E h \in hasWord.accepts :
       h # <<>> /\ IsSingleEdit(toLowerCase(rawWord), h, Letters)
  /\ result = rawWord

\* C2: when the predicate accepts no non-empty member of the candidate set,
\* the token comes back unchanged, character for character.
C2_NoHitsUnchanged ==
  (Called /\ \A c \in hasWord.accepts :
               c = <<>> \/ ~IsCandidate(toLowerCase(rawWord), c))
    => result = rawWord

\* A mixed-case token of full length that no accepted word is a candidate of,
\* under a predicate that does accept words.
C2_Witness ==
  /\ Called
  /\ Len(rawWord) >= 2
  /\ toLowerCase(rawWord) # rawWord
  /\ hasWord.accepts \ {<<>>} # {}
  /\ HitSet = {}
  /\ toLowerCase(rawWord) \notin hasWord.accepts
  /\ result = rawWord

\* C10: the result of a call on a non-empty token is the token itself, or a
\* non-empty string whose lowercase form the predicate accepts and the
\* candidate set contains.
C10_ResultSound ==
  (Called /\ rawWord # <<>>)
    => \/ result = rawWord
       \/ /\ result # <<>>
          /\ toLowerCase(result) \in hasWord.accepts
          /\ IsCandidate(toLowerCase(rawWord), toLowerCase(result))

\* A one-character token corrected under a predicate that accepts the empty
\* string, its single deletion.
C10_Witness ==
  /\ Called
  /\ Len(rawWord) = 1
  /\ <<>> \in hasWord.accepts
  /\ result # rawWord
  /\ result # <<>>

\* C3, as claimed: the Hit a correction is made from is at Levenshtein
\* distance exactly 1 from the lowercased token.
C3_ChosenHitAtDistanceOne ==
  (Called /\ best # Null) => levenshtein(toLowerCase(rawWord), best) = 1

\* C3, amended: the chosen Hit is at distance exactly 1 when it is a single
\* deletion, insertion or substitution of the lowercased token; otherwise it
\* is a repeat-run collapse that removed two or more characters, and its
\* distance is the number of characters removed.
C3_ChosenHitDistance ==
  (Called /\ best # Null) =>
    \E d \in {levenshtein(toLowerCase(rawWord), best)} :
      IF IsSingleEdit(toLowerCase(rawWord), best, Letters)
      THEN d = 1
      ELSE /\ IsCollapse(toLowerCase(rawWord), best)
           /\ d = Len(rawWord) - Len(best)
           /\ d >= 2

\* A correction made from a Hit that only the repeat-run pass produces.
C3_Witness ==
  /\ Called
  /\ best # Null
  /\ ~IsSingleEdit(toLowerCase(rawWord), best, Letters)
  /\ levenshtein(toLowerCase(rawWord), best) >= 2

\* C4, as claimed: the correction is the chosen Hit fully upper-cased when
\* the token equals its own upper-cased form, else the Hit with its first
\* character upper-cased when the token's first character is an upper-case
\* letter, else the Hit as generated.
IsUpperCaseLetter(c) == c \in Range(capitals)

C4_CaseTemplate ==
  (Called /\ best # Null) =>
    result = IF toUpperCase(rawWord) = rawWord
             THEN toUpperCase(best)
             ELSE IF IsUpperCaseLetter(rawWord[1])
                  THEN <<toUpperCaseCh(best[1])>> \o Tail(best)
                  ELSE best

\* C5: the chosen Hit is at the least distance among the Hits, and among
\* the Hits at that distance it is the one first added to the candidate set:
\* repeat-run variants, then deletions by index, then insertions by index
\* and letter, then substitutions by index and letter.
LetterIndex(ch) == CHOOSE k \in DOMAIN alphabet : alphabet[k] = ch

\* Where c is first added: <<pass, position within the pass>>.
FirstAdded(lower, c) ==
  IF IsCollapse(lower, c)
    THEN <<1, CHOOSE k \in DOMAIN repeatVariants(lower) : repeatVariants(lower)[k] = c>>
  ELSE IF IsDeletion(lower, c)
    THEN <<2, CHOOSE i \in 1..Len(lower) :
                /\ RemoveAt(lower, i) = c
                /\ \A j \in 1..(i - 1) : RemoveAt(lower, j) # c>>
  ELSE IF IsInsertion(lower, c, Letters)
    THEN LET at == { i \in 1..Len(c) : c[i] \in Letters /\ RemoveAt(c, i) = lower }
             pos == { (i - 1) * Len(alphabet) + LetterIndex(c[i]) : i \in at }
         IN  <<3, CHOOSE x \in pos : \A y \in pos : x <= y>>
  ELSE LET i == CHOOSE j \in 1..Len(c) : c[j] # lower[j]
       IN  <<4, (i - 1) * Len(alphabet) + LetterIndex(c[i])>>

Earlier(x, y) == x[1] < y[1] \/ (x[1] = y[1] /\ x[2] < y[2])

C5_FirstMinimumWins ==
  (Called /\ best # Null) =>
    /\ best \in HitSet
    /\ \A h \in HitSet \ {best} :
         \E db \in {levenshtein(toLowerCase(rawWord), best)},
            dh \in {levenshtein(toLowerCase(rawWord), h)} :
           /\ db <= dh
           /\ db = dh => Earlier(FirstAdded(toLowerCase(rawWord), best),
                                 FirstAdded(toLowerCase(rawWord), h))

\* Two Hits tie at the least distance.
C5_Witness ==
  /\ Called
  /\ best # Null
  /\ \E h \in HitSet \ {best} :
       levenshtein(toLowerCase(rawWord), h) = levenshtein(toLowerCase(rawWord), best)

\* C6, as claimed: a non-empty token over a..z that the predicate rejects,
\* with an accepted word over a..z at distance exactly 1, is corrected to an
\* accepted word at distance exactly 1.
OverLetters(w) == \A k \in DOMAIN w : w[k] \in Letters

C6_EveryNeighbourFound ==
  (/\ Called
   /\ rawWord # <<>>
   /\ OverLetters(rawWord)
   /\ rawWord \notin hasWord.accepts
   /\ \E d \in hasWord.accepts : OverLetters(d) /\ AtDistanceOne(rawWord, d))
    => /\ result # rawWord
       /\ result \in hasWord.accepts
       /\ AtDistanceOne(rawWord, result)

\* C6, amended: the same, for an accepted non-empty word at distance 1.
C6_EveryNonEmptyNeighbourFound ==
  (/\ Called
   /\ rawWord # <<>>
   /\ OverLetters(rawWord)
   /\ rawWord \notin hasWord.accepts
   /\ \E d \in hasWord.accepts :
        d # <<>> /\ OverLetters(d) /\ AtDistanceOne(rawWord, d))
    => /\ result # rawWord
       /\ result \in hasWord.accepts
       /\ AtDistanceOne(rawWord, result)

\* A rejected token corrected to the accepted word that adds one letter at
\* its end.
C6_Witness ==
  /\ Called
  /\ rawWord # <<>>
  /\ OverLetters(rawWord)
  /\ rawWord \notin hasWord.accepts
  /\ result # rawWord
  /\ Len(result) = Len(rawWord) + 1
  /\ SubSeq(result, 1, Len(rawWord)) = rawWord

---------------------------------------------------------------------------
(* The claim about the lazily loaded word set, checked under SpecLoad.     *)

\* C7: a call made without a predicate while the word set is null returns
\* its token at once, chooses no Hit and raises nothing, whatever loads are
\* in flight; a load that fails leaves the word set as it was (null stays
\* null) and its error reaches nobody.
C7_NullDatasetNoCorrection ==
  [][ /\ (last' = "getCorrection" /\ ~hasWord.given /\ ~wordsDataset.loaded)
         => (result' = rawWord /\ best' = Null /\ ~unhandled')
      /\ (last' \in {"fetchReject", "textReject"})
         => (wordsDataset' = wordsDataset /\ ~unhandled') ]_vars

\* A call returned a token unchanged while the word set was null and a load
\* was waiting for the text that would have corrected it.
C7_Witness ==
  /\ last = "getCorrection"
  /\ ~wordsDataset.loaded
  /\ nText > 0
  /\ result = rawWord
  /\ \E text \in Files :
       getCorrection(rawWord, NoPredicate,
                     [loaded |-> TRUE, words |-> parseWords(text)]) # rawWord

---------------------------------------------------------------------------
(* The claim about levenshtein, checked under SpecLev.                     *)

\* The strings within k single-character edits of a, among the strings no
\* longer than a or b (a shortest edit path never needs a longer one).
RECURSIVE Within(_, _, _)
Within(a, k, universe) ==
  IF k = 0 THEN {a}
  ELSE LET near == Within(a, k - 1, universe)
       IN  near \cup { t \in universe : \E s \in near : AtDistanceOne(s, t) }

Longest(a, b) == IF Len(a) >= Len(b) THEN Len(a) ELSE Len(b)

\* The classic edit distance: the least number of single-character
\* insertions, deletions and substitutions that turn a into b.
EditDistance(a, b) ==
  LET universe == StringsOver(Range(a) \cup Range(b), Longest(a, b))
  IN  CHOOSE k \in 0..(Len(a) + Len(b)) :
        /\ b \in Within(a, k, universe)
        /\ \A j \in 0..(k - 1) : b \notin Within(a, j, universe)

\* C8: levenshtein(a, b) is the classic edit distance, also when a or b is
\* empty; so it is 0 exactly when a = b, and symmetric.
C8_LevenshteinIsEditDistance ==
  levD # -1 =>
    /\ levD = EditDistance(levA, levB)
    /\ (levA = <<>> => levD = Len(levB))
    /\ (levB = <<>> => levD = Len(levA))
    /\ (levD = 0 <=> levA = levB)
    /\ levenshtein(levB, levA) = levD

\* Two non-empty strings of different lengths, two edits apart.
C8_Witness ==
  /\ levD = 2
  /\ levA # <<>>
  /\ levB # <<>>
  /\ Len(levA) # Len(levB)

---------------------------------------------------------------------------
(* The claim about repeatVariants, checked under SpecRepeat.               *)

RECURSIVE Pow2(_)
Pow2(k) == IF k = 0 THEN 1 ELSE 2 * Pow2(k - 1)

LongRuns(w) == { k \in 1..RunCount(w) : RunLength(w, k) > 1 }

\* C9: repeatVariants(word) is exactly the set of strings that keep word's
\* runs in order, each run of length 1 as it is and each longer run cut to 1
\* or 2 characters: 2^k distinct strings for k longer runs, none with a run
\* of 3 or more, the word alone when nothing is doubled, the empty string
\* alone for the empty word.
C9_RepeatVariantsExact ==
  rvOut # <<NoResult>> =>
    /\ \A i, j \in DOMAIN rvOut : rvOut[i] = rvOut[j] => i = j
    /\ Range(rvOut) = { t \in StringsOver(Range(rvWord), Len(rvWord)) :
                          IsCollapse(rvWord, t) }
    /\ Len(rvOut) = Pow2(Cardinality(LongRuns(rvWord)))
    /\ \A i \in DOMAIN rvOut :
         \A k \in 1..RunCount(rvOut[i]) : RunLength(rvOut[i], k) <= 2
    /\ (LongRuns(rvWord) = {} => rvOut = <<rvWord>>)
    /\ (rvWord = <<>> => rvOut = << <<>> >>)

\* A word with a run of three or more beside another character.
C9_Witness ==
  /\ rvOut # <<NoResult>>
  /\ \E k \in 1..RunCount(rvWord) : RunLength(rvWord, k) >= 3
  /\ RunCount(rvWord) >= 2
  /\ Len(rvOut) = 2

===========================================================================
